---- MODULE Spec2Model ----
(***************************************************************************)
(* Model of mcp-servers/excel-python-server.py: the ExcelAnalyzer scan     *)
(* passes over a loaded workbook, the staging of the request's buffer in a *)
(* temporary file, and the line-oriented JSON-RPC loop that dispatches to   *)
(* them.                                                                    *)
(*                                                                         *)
(* Text (a Python str) is a sequence of one-character strings, so that      *)
(* str(), substring tests and coordinate labels are computed; dictionary    *)
(* keys, sheet titles and tool names are plain strings.                     *)
(***************************************************************************)
EXTENDS Integers, Sequences, FiniteSets, TLC

VARIABLES
    pc,         \* position of main's loop
    line,       \* the line last read from stdin
    req,        \* json.loads(line), when it parsed
    faults,     \* what the environment did to each load of this request
    response,   \* the response built for the line
    nread,      \* lines read from stdin so far
    nblank,     \* of those, the lines skipped as blank
    nwritten,   \* response lines printed to stdout so far
    disk,       \* temporary .xlsx files present in the temp directory
    scan_buf,   \* the buffer handed to direct calls of the analyzer
    scan_ran,   \* the analyzer methods called on scan_buf so far
    scan_out    \* the outcome of each of those calls

vars == <<pc, line, req, faults, response, nread, nblank, nwritten, disk,
          scan_buf, scan_ran, scan_out>>

server_vars == <<pc, line, req, faults, response, nread, nblank, nwritten, disk>>

scan_vars == <<scan_buf, scan_ran, scan_out>>

-----------------------------------------------------------------------------
(* Bounds of the model and constants of the program *)

\* lines the loop reads before the input stream ends
MaxLines == 2

\* rows of the tallest sample worksheet
MaxRow == 52

\* columns of the widest sample worksheet
MaxCol == 53

\* the slice hidden_rows[:50] / hidden_columns[:50]
HiddenLimit == 50

ParseErrorCode == -32700

InternalErrorCode == -32603

-----------------------------------------------------------------------------
(* Python values *)

None == [t |-> "none"]

IntV(n) == [t |-> "int", n |-> n]

BoolV(b) == [t |-> "bool", b |-> b]

StrV(s) == [t |-> "str", s |-> s]

Min(a, b) == IF a < b THEN a ELSE b

DigitChars == <<"0", "1", "2", "3", "4", "5", "6", "7", "8", "9">>

Alphabet == <<"A", "B", "C", "D", "E", "F", "G", "H", "I", "J", "K", "L", "M",
              "N", "O", "P", "Q", "R", "S", "T", "U", "V", "W", "X", "Y", "Z">>

\* str(n) of a non-negative int
RECURSIVE Digits(_)
Digits(n) ==
    IF n < 10 THEN <<DigitChars[n + 1]>>
    ELSE Digits(n \div 10) \o <<DigitChars[(n % 10) + 1]>>

\* bool(v): the truth value Python's `if v` / `v and ...` tests
truthy(v) ==
    CASE v.t = "none" -> FALSE
      [] v.t = "int"  -> v.n # 0
      [] v.t = "bool" -> v.b
      [] v.t = "str"  -> Len(v.s) > 0

\* str(v)
str(v) ==
    CASE v.t = "none" -> <<"N", "o", "n", "e">>
      [] v.t = "int"  -> Digits(v.n)
      [] v.t = "bool" -> IF v.b THEN <<"T", "r", "u", "e">>
                                ELSE <<"F", "a", "l", "s", "e">>
      [] v.t = "str"  -> v.s

\* ch in s
contains(s, ch) == \E i \in 1..Len(s) : s[i] = ch

\* getattr(obj, key, default) / dict.get(key, default)
getattr(obj, key, default) == IF key \in DOMAIN obj THEN obj[key] ELSE default

\* s[:n]
Take(s, n) == SubSeq(s, 1, Min(n, Len(s)))

RECURSIVE SumSeq(_)
SumSeq(s) == IF s = <<>> THEN 0 ELSE Head(s) + SumSeq(Tail(s))

-----------------------------------------------------------------------------
(* JSON values: what json.loads returns *)

\* a JSON string
Text(x) == [t |-> "text", x |-> x]

\* a JSON object, d its members
Dict(d) == [t |-> "dict", d |-> d]

\* a JSON array
List == [t |-> "list"]

EmptyDict == Dict(<<>>)

\* a JSON string that is the base64 text of bytes (padded is FALSE when its
\* padding is wrong, the one malformation b64decode rejects in a str)
Base64(bytes, padded) == [t |-> "base64", padded |-> padded, bytes |-> bytes]

\* obj.get(key, default) on a dict
dict_get(obj, key, default) == IF key \in DOMAIN obj.d THEN obj.d[key] ELSE default

RECURSIVE Join(_)
Join(chars) == IF chars = <<>> THEN "" ELSE Head(chars) \o Join(Tail(chars))

\* str(v) inside an f-string, for the values a name can hold
format(v) ==
    CASE v.t = "text" -> v.x
      [] v.t = "none" -> "None"
      [] v.t = "int"  -> Join(Digits(v.n))
      [] OTHER        -> "[]"

\* the text json.dumps writes for a value
json_dumps(v) == [t |-> "json", of |-> v]

FileName == Text("a.xlsx")

-----------------------------------------------------------------------------
(* The workbook model openpyxl exposes *)

\* openpyxl.utils.get_column_letter: 1 -> A, 26 -> Z, 27 -> AA
RECURSIVE get_column_letter(_)
get_column_letter(col_idx) ==
    IF col_idx = 0 THEN <<>>
    ELSE LET r == col_idx % 26
             remainder == IF r = 0 THEN 26 ELSE r
             rest == IF r = 0 THEN (col_idx \div 26) - 1 ELSE col_idx \div 26
         IN  get_column_letter(rest) \o <<Alphabet[remainder]>>

\* cell.coordinate
coordinate(row, column) == get_column_letter(column) \o Digits(row)

EmptyCell == [value |-> None, comment |-> None]

\* ws.cell(row=, column=): the cell there, created empty when absent
ws_cell(ws, row, column) ==
    LET c == IF <<row, column>> \in DOMAIN ws.cells
             THEN ws.cells[<<row, column>>] ELSE EmptyCell
    IN  [row |-> row, column |-> column, value |-> c.value, comment |-> c.comment]

\* ws.iter_rows(), flattened: the cells of the bounding box, row by row
iter_rows(ws) ==
    [k \in 1..(ws.max_row * ws.max_column) |->
        ws_cell(ws, ((k - 1) \div ws.max_column) + 1, ((k - 1) % ws.max_column) + 1)]

\* wb.sheetnames
sheetnames(wb) == [i \in 1..Len(wb) |-> wb[i].title]

\* wb[sheet_name]
wb_getitem(wb, sheet_name) ==
    wb[CHOOSE i \in 1..Len(wb) :
           /\ wb[i].title = sheet_name
           /\ \A j \in 1..(i - 1) : wb[j].title # sheet_name]

-----------------------------------------------------------------------------
(* ExcelAnalyzer *)

\* what a call returns: a value, or the exception that left it; and the
\* temporary files on disk afterwards
Returned(value, d) == [ok |-> TRUE, value |-> value, err |-> "", disk |-> d]

Raised(err, d) == [ok |-> FALSE, value |-> None, err |-> err, disk |-> d]

\* load_workbook_from_buffer(file_buffer) with d temporary files on disk.
\* fault is what the environment does to this load: "create" fails the
\* creation of the temporary file, "write" fails the write into it, "load"
\* fails openpyxl's read of it; "none" and "scan" leave the load alone.
load_workbook_from_buffer_stale(file_buffer, fault, d) ==
    IF fault = "create" \/ d > 0
    THEN Raised("OSError: cannot create temporary file", d)
    ELSE IF file_buffer.t = "none"
    THEN Raised("a bytes-like object is required, not 'NoneType'", d + 1)
    ELSE IF fault = "write" THEN Raised("OSError: No space left on device", d + 1)
    ELSE IF fault = "load" THEN Raised("OSError: cannot read temporary file", d)
    ELSE IF ~file_buffer.xlsx THEN Raised("File is not a zip file", d)
    ELSE Returned(file_buffer.wb, d + 1)

load_workbook_from_buffer(file_buffer, fault, d) ==
    IF fault = "create" THEN Raised("OSError: cannot create temporary file", d)
    \* with NamedTemporaryFile(delete=False): the file now exists
    ELSE IF file_buffer.t = "none"
    THEN Raised("a bytes-like object is required, not 'NoneType'", d + 1)
    ELSE IF fault = "write" THEN Raised("OSError: No space left on device", d + 1)
    \* try: load_workbook(tmp_path) except: os.unlink(tmp_path); raise
    ELSE IF fault = "load" THEN Raised("OSError: cannot read temporary file", d)
    ELSE IF ~file_buffer.xlsx THEN Raised("File is not a zip file", d)
    ELSE Returned(file_buffer.wb, d + 1)

\* the findings of one worksheet, lines 64-74
sheet_comments(ws) ==
    LET cells == SelectSeq(iter_rows(ws), LAMBDA cell : cell.comment # None)
    IN  [i \in 1..Len(cells) |->
            [cell    |-> coordinate(cells[i].row, cells[i].column),
             value   |-> IF truthy(cells[i].value) THEN str(cells[i].value) ELSE <<>>,
             comment |-> cells[i].comment.text,
             author  |-> getattr(cells[i].comment, "author", "Unknown")]]

\* the try body of extract_comments
comments_report_unfiltered(filename, wb) ==
    LET names == sheetnames(wb)
        found == [i \in 1..Len(names) |-> sheet_comments(wb_getitem(wb, names[i]))]
    IN  [filename       |-> filename,
         total_comments |-> SumSeq([i \in 1..Len(names) |-> Len(found[i])]),
         worksheets     |-> [i \in 1..Len(names) |->
                                [sheet         |-> names[i],
                                 comment_count |-> Len(found[i]),
                                 comments      |-> found[i]]]]

comments_report(filename, wb) ==
    LET names == sheetnames(wb)
        found == [i \in 1..Len(names) |-> sheet_comments(wb_getitem(wb, names[i]))]
        kept  == SelectSeq([i \in 1..Len(names) |-> i], LAMBDA i : Len(found[i]) > 0)
    IN  [filename       |-> filename,
         total_comments |-> SumSeq([k \in 1..Len(kept) |-> Len(found[kept[k]])]),
         worksheets     |-> [k \in 1..Len(kept) |->
                                [sheet         |-> names[kept[k]],
                                 comment_count |-> Len(found[kept[k]]),
                                 comments      |-> found[kept[k]]]]]

extract_comments(filename, file_buffer, fault, d) ==
    LET loaded == load_workbook_from_buffer(file_buffer, fault, d)
    IN  IF ~loaded.ok THEN loaded
        \* try: ... finally: os.unlink(tmp_path)
        ELSE IF fault = "scan" THEN Raised("scan failed", loaded.disk - 1)
        ELSE Returned(comments_report(filename, loaded.value), loaded.disk - 1)

\* the findings of one worksheet, lines 104-117
sheet_questions(ws) ==
    LET cells == SelectSeq(iter_rows(ws),
                     LAMBDA cell : truthy(cell.value) /\ contains(str(cell.value), "?"))
    IN  [i \in 1..Len(cells) |->
            LET answer_cell == ws_cell(ws, cells[i].row, cells[i].column + 1)
            IN  [cell        |-> coordinate(cells[i].row, cells[i].column),
                 question    |-> str(cells[i].value),
                 answer_cell |-> coordinate(answer_cell.row, answer_cell.column),
                 answer      |-> IF truthy(answer_cell.value)
                                 THEN str(answer_cell.value) ELSE <<>>]]

\* the try body of extract_questions
questions_report(filename, wb) ==
    LET names == sheetnames(wb)
        found == [i \in 1..Len(names) |-> sheet_questions(wb_getitem(wb, names[i]))]
        kept  == SelectSeq([i \in 1..Len(names) |-> i], LAMBDA i : Len(found[i]) > 0)
    IN  [filename        |-> filename,
         total_questions |-> SumSeq([k \in 1..Len(kept) |-> Len(found[kept[k]])]),
         worksheets      |-> [k \in 1..Len(kept) |->
                                 [sheet          |-> names[kept[k]],
                                  question_count |-> Len(found[kept[k]]),
                                  questions      |-> found[kept[k]]]]]

extract_questions(filename, file_buffer, fault, d) ==
    LET loaded == load_workbook_from_buffer(file_buffer, fault, d)
    IN  IF ~loaded.ok THEN loaded
        ELSE IF fault = "scan" THEN Raised("scan failed", loaded.disk - 1)
        ELSE Returned(questions_report(filename, loaded.value), loaded.disk - 1)

\* the rows of 1..max_row whose row dimension is hidden, lines 152-155
hidden_rows_of(ws) ==
    SelectSeq([row_num \in 1..ws.max_row |-> row_num],
              LAMBDA row_num : row_num \in ws.row_hidden)

\* the letters of the columns of 1..max_column whose column dimension is
\* hidden, lines 158-162
hidden_columns_of(ws) ==
    SelectSeq([col_num \in 1..ws.max_column |-> get_column_letter(col_num)],
              LAMBDA col_letter : col_letter \in ws.col_hidden)

\* sheet_data, lines 164-173
sheet_data_counts_listed(ws) ==
    LET hidden_rows    == hidden_rows_of(ws)
        hidden_columns == hidden_columns_of(ws)
    IN  [sheet               |-> ws.title,
         hidden              |-> ws.sheet_state = "hidden",
         row_count           |-> ws.max_row,
         column_count        |-> ws.max_column,
         hidden_row_count    |-> Len(Take(hidden_rows, HiddenLimit)),
         hidden_column_count |-> Len(Take(hidden_columns, HiddenLimit)),
         hidden_rows         |-> Take(hidden_rows, HiddenLimit),
         hidden_columns      |-> Take(hidden_columns, HiddenLimit)]

sheet_data_unlimited(ws) ==
    LET hidden_rows    == hidden_rows_of(ws)
        hidden_columns == hidden_columns_of(ws)
    IN  [sheet               |-> ws.title,
         hidden              |-> ws.sheet_state = "hidden",
         row_count           |-> ws.max_row,
         column_count        |-> ws.max_column,
         hidden_row_count    |-> Len(hidden_rows),
         hidden_column_count |-> Len(hidden_columns),
         hidden_rows         |-> hidden_rows,
         hidden_columns      |-> hidden_columns]

sheet_data(ws) ==
    LET hidden_rows    == hidden_rows_of(ws)
        hidden_columns == hidden_columns_of(ws)
    IN  [sheet               |-> ws.title,
         hidden              |-> ws.sheet_state = "hidden",
         row_count           |-> ws.max_row,
         column_count        |-> ws.max_column,
         hidden_row_count    |-> Len(hidden_rows),
         hidden_column_count |-> Len(hidden_columns),
         hidden_rows         |-> Take(hidden_rows, HiddenLimit),
         hidden_columns      |-> Take(hidden_columns, HiddenLimit)]

\* the try body of detect_hidden_content
hidden_report(filename, wb) ==
    LET names == sheetnames(wb)
    IN  [filename             |-> filename,
         total_hidden_rows    |->
             SumSeq([i \in 1..Len(names) |-> Len(hidden_rows_of(wb_getitem(wb, names[i])))]),
         total_hidden_columns |->
             SumSeq([i \in 1..Len(names) |-> Len(hidden_columns_of(wb_getitem(wb, names[i])))]),
         worksheets           |->
             [i \in 1..Len(names) |-> sheet_data(wb_getitem(wb, names[i]))]]

detect_hidden_content(filename, file_buffer, fault, d) ==
    LET loaded == load_workbook_from_buffer(file_buffer, fault, d)
    IN  IF ~loaded.ok THEN loaded
        ELSE IF fault = "scan" THEN Raised("scan failed", loaded.disk - 1)
        ELSE Returned(hidden_report(filename, loaded.value), loaded.disk - 1)

\* the dict comprehensive_analysis returns, lines 192-204
combined_report_crossed(filename, comments, questions, hidden) ==
    [filename       |-> filename,
     summary        |-> [total_comments       |-> comments.total_comments,
                         total_questions      |-> comments.total_comments,
                         total_hidden_rows    |-> hidden.total_hidden_rows,
                         total_hidden_columns |-> hidden.total_hidden_rows,
                         worksheet_count      |-> Len(hidden.worksheets)],
     comments       |-> comments,
     questions      |-> questions,
     hidden_content |-> hidden]

combined_report(filename, comments, questions, hidden) ==
    [filename       |-> filename,
     summary        |-> [total_comments       |-> comments.total_comments,
                         total_questions      |-> questions.total_questions,
                         total_hidden_rows    |-> hidden.total_hidden_rows,
                         total_hidden_columns |-> hidden.total_hidden_columns,
                         worksheet_count      |-> Len(hidden.worksheets)],
     comments       |-> comments,
     questions      |-> questions,
     hidden_content |-> hidden]

comprehensive_analysis_partial(filename, file_buffer, fault3, d) ==
    LET comments == extract_comments(filename, file_buffer, fault3[1], d)
    IN  IF ~comments.ok THEN comments
        ELSE LET questions == extract_questions(filename, file_buffer, fault3[2],
                                                comments.disk)
             IN  IF ~questions.ok
                 THEN Returned([filename |-> filename, comments |-> comments.value],
                               questions.disk)
                 ELSE LET hidden == detect_hidden_content(filename, file_buffer,
                                                          fault3[3], questions.disk)
                      IN  IF ~hidden.ok
                          THEN Returned([filename  |-> filename,
                                         comments  |-> comments.value,
                                         questions |-> questions.value],
                                        hidden.disk)
                          ELSE Returned(combined_report(filename, comments.value,
                                                        questions.value, hidden.value),
                                        hidden.disk)

\* comprehensive_analysis: three passes, each with its own load; an
\* exception of a pass leaves the method at once
comprehensive_analysis(filename, file_buffer, fault3, d) ==
    LET comments == extract_comments(filename, file_buffer, fault3[1], d)
    IN  IF ~comments.ok THEN comments
        ELSE LET questions == extract_questions(filename, file_buffer, fault3[2],
                                                comments.disk)
             IN  IF ~questions.ok THEN questions
                 ELSE LET hidden == detect_hidden_content(filename, file_buffer,
                                                          fault3[3], questions.disk)
                      IN  IF ~hidden.ok THEN hidden
                          ELSE Returned(combined_report(filename, comments.value,
                                                        questions.value, hidden.value),
                                        hidden.disk)

-----------------------------------------------------------------------------
(* The MCP server: TOOLS, handle_request, main *)

TOOLS ==
    <<[name |-> "extract_comments",       inputSchema |-> [required |-> <<"filename">>]],
      [name |-> "extract_questions",      inputSchema |-> [required |-> <<"filename">>]],
      [name |-> "detect_hidden_content",  inputSchema |-> [required |-> <<"filename">>]],
      [name |-> "comprehensive_analysis", inputSchema |-> [required |-> <<"filename">>]]>>

\* base64.b64decode(request["fileContent"])
b64decode(v, d) ==
    IF v.t # "base64"
    THEN Raised("argument should be a bytes-like object or ASCII string", d)
    ELSE IF ~v.padded THEN Raised("Incorrect padding", d)
    ELSE Returned(v.bytes, d)

\* the if / elif chain of lines 310-319
call_tool_unlisted(tool_name, filename, file_buffer, fault3, d) ==
    IF tool_name = Text("extract_comments")
    THEN extract_comments(filename, file_buffer, fault3[1], d)
    ELSE IF tool_name = Text("extract_questions")
    THEN extract_questions(filename, file_buffer, fault3[1], d)
    ELSE IF tool_name = Text("detect_hidden_content")
    THEN detect_hidden_content(filename, file_buffer, fault3[1], d)
    ELSE IF tool_name = Text("full_analysis")
    THEN comprehensive_analysis(filename, file_buffer, fault3, d)
    ELSE Raised("Unknown tool: " \o format(tool_name), d)

call_tool(tool_name, filename, file_buffer, fault3, d) ==
    IF tool_name = Text("extract_comments")
    THEN extract_comments(filename, file_buffer, fault3[1], d)
    ELSE IF tool_name = Text("extract_questions")
    THEN extract_questions(filename, file_buffer, fault3[1], d)
    ELSE IF tool_name = Text("detect_hidden_content")
    THEN detect_hidden_content(filename, file_buffer, fault3[1], d)
    ELSE IF tool_name = Text("comprehensive_analysis")
    THEN comprehensive_analysis(filename, file_buffer, fault3, d)
    ELSE Raised("Unknown tool: " \o format(tool_name), d)

\* the result of tools/call, lines 321-327, or the exception passed on
call_result(result) ==
    IF ~result.ok THEN result
    ELSE Returned([content |-> json_dumps(result.value)], result.disk)

\* the tools/call branch, lines 299-327
tools_call(request, params, fault3, d) ==
    IF params.t # "dict" THEN Raised("object has no attribute 'get'", d)
    ELSE LET tool_name == dict_get(params, "name", None)
             arguments == dict_get(params, "arguments", EmptyDict)
         IN  IF arguments.t # "dict" THEN Raised("object has no attribute 'get'", d)
             ELSE LET filename == dict_get(arguments, "filename", None)
                      decoded  == IF "fileContent" \in DOMAIN request.d
                                  THEN b64decode(request.d["fileContent"], d)
                                  ELSE Returned(None, d)
                  IN  IF ~decoded.ok THEN decoded
                      ELSE call_result(call_tool(tool_name, filename, decoded.value,
                                                 fault3, d))

\* the try body of handle_request, lines 273-330
dispatch(request, method, params, fault3, d) ==
    IF method = Text("initialize")
    THEN Returned([protocolVersion |-> "2024-11-05",
                   capabilities    |-> [tools |-> EmptyDict],
                   serverInfo      |-> [name |-> "excel-python-mcp", version |-> "1.0.0"]],
                  d)
    ELSE IF method = Text("tools/list") THEN Returned([tools |-> TOOLS], d)
    ELSE IF method = Text("tools/call") THEN tools_call(request, params, fault3, d)
    ELSE Raised("Unknown method: " \o format(method), d)

\* an error response, lines 333-341 and 356-364
error_response_anonymous(req_id, code, message, data) ==
    [jsonrpc |-> "2.0", id |-> IntV(0),
     error |-> [code |-> code, message |-> message, data |-> data]]

error_response(req_id, code, message, data) ==
    [jsonrpc |-> "2.0", id |-> req_id,
     error |-> [code |-> code, message |-> message, data |-> data]]

\* what handle_request returns for the outcome of its try body: the result,
\* or the except of lines 332-341
respond(req_id, outcome) ==
    IF outcome.ok
    THEN Returned([jsonrpc |-> "2.0", id |-> req_id, result |-> outcome.value],
                  outcome.disk)
    ELSE Returned(error_response(req_id, InternalErrorCode, "Internal error", outcome.err),
                  outcome.disk)

\* handle_request(request): the response it returns, or the exception that
\* leaves it from lines 268-270, which stand before its try
handle_request(request, fault3, d) ==
    IF request.t # "dict" THEN Raised("object has no attribute 'get'", d)
    ELSE LET method  == dict_get(request, "method", None)
             params  == dict_get(request, "params", EmptyDict)
             req_id  == dict_get(request, "id", IntV(0))
         IN  respond(req_id, dispatch(request, method, params, fault3, d))

\* json.loads(line)
json_loads(text, d) ==
    IF text.parses THEN Returned(text.value, d) ELSE Raised("Expecting value", d)

\* the except of main, lines 355-365, around an outcome of its try body
main_except(outcome) ==
    IF outcome.ok THEN outcome
    ELSE Returned(error_response(IntV(0), ParseErrorCode, "Parse error", outcome.err),
                  outcome.disk)

\* the body of main's loop for a line that is not blank, lines 351-365
serve_line(text, fault3, d) ==
    IF ~json_loads(text, d).ok
    THEN main_except(json_loads(text, d))
    ELSE main_except(handle_request(json_loads(text, d).value, fault3, d))

-----------------------------------------------------------------------------
(* Sample workbooks: the inputs the analyzer is run on *)

\* the key of column i in ws.column_dimensions, for i up to 702 (ZZ)
ColKey(i) ==
    IF i <= 26 THEN <<Alphabet[i]>>
    ELSE <<Alphabet[(i - 1) \div 26], Alphabet[((i - 1) % 26) + 1]>>

Plain(v) == [value |-> v, comment |-> None]

Noted(v, c) == [value |-> v, comment |-> c]

TextOK == <<"O", "K", "?">>

TextYes == <<"Y", "e", "s">>

CommentAnn == [text |-> <<"f", "i", "x">>, author |-> "Ann"]

CommentAnon == [text |-> <<"h", "m">>]

Sheet(title, state, rows, cols, cells, row_hidden, col_hidden) ==
    [title |-> title, sheet_state |-> state, max_row |-> rows, max_column |-> cols,
     cells |-> cells, row_hidden |-> row_hidden, col_hidden |-> col_hidden]

Blank(rows, cols) == [rc \in (1..rows) \X (1..cols) |-> EmptyCell]

\* one row of two cells: a question and what stands to its right
PairKinds ==
    {EmptyCell, Plain(StrV(TextOK)), Plain(StrV(TextYes)), Plain(StrV(<<>>)),
     Plain(IntV(0)), Plain(IntV(7)), Plain(BoolV(FALSE)),
     Noted(StrV(TextOK), CommentAnn), Noted(BoolV(FALSE), CommentAnon)}

PairSheets ==
    {Sheet("Sheet1", "visible", 1, 2, cells, {}, {}) :
        cells \in [(1..1) \X (1..2) -> PairKinds]}

\* two rows of two cells
GridKinds ==
    {EmptyCell, Plain(StrV(TextOK)), Noted(IntV(0), CommentAnn), Noted(None, CommentAnon)}

GridSheets ==
    {Sheet("Sheet1", "visible", 2, 2, cells, {2}, {}) :
        cells \in [(1..2) \X (1..2) -> GridKinds]}

\* hidden rows / columns of a worksheet of n rows / columns; some lie
\* outside the bounding box
HiddenPatterns(n) ==
    {{}, {n}, 1..n, 1..(n + 2), (n + 1)..(n + 2), (1..n) \ {1}, (1..n) \ {2, n},
     {i \in 1..n : i % 2 = 0}, {i \in 1..n : i % 26 = 0}}

Dims == {<<MaxRow, 1>>, <<1, MaxCol>>, <<3, 3>>, <<HiddenLimit, 2>>}

HiddenSheets ==
    {Sheet("Data", "visible", d[1], d[2], Blank(d[1], d[2]), rh,
           {ColKey(i) : i \in ch}) :
        d \in Dims, rh \in HiddenPatterns(MaxRow) \cup HiddenPatterns(3),
        ch \in HiddenPatterns(MaxCol) \cup HiddenPatterns(3)}

\* worksheets of the workbooks that hold several
SheetA ==
    Sheet("Notes", "visible", 1, 1,
          [rc \in (1..1) \X (1..1) |-> Noted(StrV(TextYes), CommentAnn)], {}, {})

SheetB ==
    Sheet("Survey", "hidden", 2, 2,
          [rc \in (1..2) \X (1..2) |->
              IF rc[2] = 1 THEN Plain(StrV(TextOK)) ELSE Plain(StrV(TextYes))],
          {1}, {ColKey(2)})

SheetC == Sheet("Empty", "veryHidden", 1, 1, Blank(1, 1), {}, {})

SheetD == Sheet("Tall", "visible", MaxRow, 1, Blank(MaxRow, 1), 1..MaxRow, {ColKey(1)})

SheetE ==
    Sheet("Mixed", "visible", 1, 2,
          (<<1, 1>> :> Noted(StrV(TextOK), CommentAnon)) @@ (<<1, 2>> :> Plain(IntV(0))),
          {}, {})

BookSheets == {SheetA, SheetB, SheetC, SheetD, SheetE}

Books ==
    {b \in (BookSheets \X BookSheets) \cup (BookSheets \X BookSheets \X BookSheets) :
        \A i, j \in 1..Len(b) : i # j => b[i] # b[j]}

ScanWorkbooks ==
    {<<ws>> : ws \in PairSheets \cup GridSheets \cup HiddenSheets} \cup Books

\* a file_buffer: None, or bytes that are or are not a packaged workbook
Bytes(wb) == [t |-> "bytes", xlsx |-> TRUE, wb |-> wb]

CorruptBytes == [t |-> "bytes", xlsx |-> FALSE, wb |-> <<>>]

ScanBuffers == {Bytes(wb) : wb \in ScanWorkbooks} \cup {CorruptBytes, None}

ToolNames ==
    {"extract_comments", "extract_questions", "detect_hidden_content",
     "comprehensive_analysis"}

NoFaults == <<"none", "none", "none">>

NotRun == Raised("not called", 0)

-----------------------------------------------------------------------------
(* Direct calls of the analyzer on one buffer *)

ServerIdle ==
    /\ pc = "idle"
    /\ line = None
    /\ req = None
    /\ faults = NoFaults
    /\ response = None
    /\ nread = 0
    /\ nblank = 0
    /\ nwritten = 0
    /\ disk = 0

InitScan ==
    /\ ServerIdle
    /\ scan_buf \in ScanBuffers
    /\ scan_ran = {}
    /\ scan_out = [tool \in ToolNames |-> NotRun]

Ran(tool, outcome) ==
    /\ tool \notin scan_ran
    /\ scan_ran' = scan_ran \cup {tool}
    /\ scan_out' = [scan_out EXCEPT ![tool] = outcome]
    /\ UNCHANGED <<scan_buf, server_vars>>

CallExtractComments ==
    Ran("extract_comments", extract_comments(FileName, scan_buf, "none", 0))

CallExtractQuestions ==
    Ran("extract_questions", extract_questions(FileName, scan_buf, "none", 0))

CallDetectHiddenContent ==
    Ran("detect_hidden_content", detect_hidden_content(FileName, scan_buf, "none", 0))

CallComprehensiveAnalysis ==
    Ran("comprehensive_analysis",
        comprehensive_analysis(FileName, scan_buf, NoFaults, 0))

NextScan ==
    \/ CallExtractComments
    \/ CallExtractQuestions
    \/ CallDetectHiddenContent
    \/ CallComprehensiveAnalysis

SpecScan == InitScan /\ [][NextScan]_vars

-----------------------------------------------------------------------------
(* Claims about the analyzer, checked under SpecScan *)

Called(tool) == tool \in scan_ran /\ scan_out[tool].ok

\* the worksheet of the buffer with this title
SheetNamed(title) == CHOOSE ws \in {scan_buf.wb[i] : i \in 1..Len(scan_buf.wb)} :
                         ws.title = title

TrueHiddenRows(ws) == {r \in 1..ws.max_row : r \in ws.row_hidden}

TrueHiddenCols(ws) == {c \in 1..ws.max_column : ColKey(c) \in ws.col_hidden}

LetterIndex(ch) == CHOOSE k \in 1..26 : Alphabet[k] = ch

\* the column number a letter label stands for: A -> 1, Z -> 26, AA -> 27
RECURSIVE ColIndex(_)
ColIndex(label) ==
    IF label = <<>> THEN 0
    ELSE 26 * ColIndex(SubSeq(label, 1, Len(label) - 1)) + LetterIndex(label[Len(label)])

\* ids is the ascending list of the first HiddenLimit members of truth
FirstOf(ids, truth) ==
    /\ Len(ids) = Min(Cardinality(truth), HiddenLimit)
    /\ \A i \in 1..Len(ids) : ids[i] \in truth
    /\ \A i \in 1..(Len(ids) - 1) : ids[i] < ids[i + 1]
    /\ \A t \in truth : (\A i \in 1..Len(ids) : ids[i] # t)
                            => \A i \in 1..Len(ids) : ids[i] < t

\* C1: a successful comprehensive_analysis carries in its summary the totals
\* of the direct calls of the three passes on the same buffer, and embeds
\* reports equal to the results of those direct calls.
C1_CompositionEqualsDirect ==
    Called("comprehensive_analysis") =>
        LET full == scan_out["comprehensive_analysis"].value
        IN  /\ "extract_comments" \in scan_ran =>
                /\ scan_out["extract_comments"].ok
                /\ full.summary.total_comments
                       = scan_out["extract_comments"].value.total_comments
                /\ full.comments = scan_out["extract_comments"].value
            /\ "extract_questions" \in scan_ran =>
                /\ scan_out["extract_questions"].ok
                /\ full.summary.total_questions
                       = scan_out["extract_questions"].value.total_questions
                /\ full.questions = scan_out["extract_questions"].value
            /\ "detect_hidden_content" \in scan_ran =>
                /\ scan_out["detect_hidden_content"].ok
                /\ full.summary.total_hidden_rows
                       = scan_out["detect_hidden_content"].value.total_hidden_rows
                /\ full.summary.total_hidden_columns
                       = scan_out["detect_hidden_content"].value.total_hidden_columns
                /\ full.hidden_content = scan_out["detect_hidden_content"].value

C1_Witness ==
    /\ scan_ran = ToolNames
    /\ Called("comprehensive_analysis")
    /\ LET s == scan_out["comprehensive_analysis"].value.summary
       IN  /\ s.total_comments > 0
           /\ s.total_questions > 1
           /\ s.total_hidden_rows > HiddenLimit
           /\ s.total_hidden_columns > 1
           /\ s.total_comments # s.total_questions
           /\ s.total_hidden_rows # s.total_hidden_columns

\* C2 as stated: in every worksheet entry of every report each count field
\* equals the length of the list beside it.
C2_CountsEqualListLengths ==
    /\ Called("extract_comments") =>
           \A e \in {scan_out["extract_comments"].value.worksheets[i] :
                        i \in 1..Len(scan_out["extract_comments"].value.worksheets)} :
               e.comment_count = Len(e.comments)
    /\ Called("extract_questions") =>
           \A e \in {scan_out["extract_questions"].value.worksheets[i] :
                        i \in 1..Len(scan_out["extract_questions"].value.worksheets)} :
               e.question_count = Len(e.questions)
    /\ Called("detect_hidden_content") =>
           \A e \in {scan_out["detect_hidden_content"].value.worksheets[i] :
                        i \in 1..Len(scan_out["detect_hidden_content"].value.worksheets)} :
               /\ e.hidden_row_count = Len(e.hidden_rows)
               /\ e.hidden_column_count = Len(e.hidden_columns)

\* C2 amended: comment_count and question_count equal the lengths of their
\* lists; hidden_rows and hidden_columns hold min(count, 50) entries, so the
\* hidden counts equal the list lengths only up to 50 hidden rows / columns.
C2_CountsEqualListLengthsUpToLimit ==
    /\ Called("extract_comments") =>
           \A e \in {scan_out["extract_comments"].value.worksheets[i] :
                        i \in 1..Len(scan_out["extract_comments"].value.worksheets)} :
               e.comment_count = Len(e.comments)
    /\ Called("extract_questions") =>
           \A e \in {scan_out["extract_questions"].value.worksheets[i] :
                        i \in 1..Len(scan_out["extract_questions"].value.worksheets)} :
               e.question_count = Len(e.questions)
    /\ Called("detect_hidden_content") =>
           \A e \in {scan_out["detect_hidden_content"].value.worksheets[i] :
                        i \in 1..Len(scan_out["detect_hidden_content"].value.worksheets)} :
               /\ Len(e.hidden_rows) = Min(e.hidden_row_count, HiddenLimit)
               /\ Len(e.hidden_columns) = Min(e.hidden_column_count, HiddenLimit)

C2_Witness ==
    /\ Called("extract_comments")
    /\ Called("extract_questions")
    /\ Called("detect_hidden_content")
    /\ \E i \in 1..Len(scan_out["extract_comments"].value.worksheets) :
           scan_out["extract_comments"].value.worksheets[i].comment_count > 0
    /\ \E i \in 1..Len(scan_out["extract_questions"].value.worksheets) :
           scan_out["extract_questions"].value.worksheets[i].question_count > 1
    /\ \E i \in 1..Len(scan_out["detect_hidden_content"].value.worksheets) :
           LET e == scan_out["detect_hidden_content"].value.worksheets[i]
           IN  e.hidden_row_count > HiddenLimit /\ Len(e.hidden_rows) = HiddenLimit

\* C3: every detect_hidden_content entry lists at most 50 hidden rows and 50
\* hidden columns, the first 50 in ascending order, while its counts and the
\* report's totals are the numbers of hidden rows in 1..max_row and of hidden
\* columns in 1..max_column of the worksheet.
C3_ListsCappedCountsTrue ==
    Called("detect_hidden_content") =>
        LET rep == scan_out["detect_hidden_content"].value
        IN  /\ \A i \in 1..Len(rep.worksheets) :
                   LET e  == rep.worksheets[i]
                       ws == SheetNamed(e.sheet)
                   IN  /\ Len(e.hidden_rows) <= HiddenLimit
                       /\ Len(e.hidden_columns) <= HiddenLimit
                       /\ FirstOf(e.hidden_rows, TrueHiddenRows(ws))
                       /\ FirstOf([k \in 1..Len(e.hidden_columns) |->
                                      ColIndex(e.hidden_columns[k])],
                                  TrueHiddenCols(ws))
                       /\ e.hidden_row_count = Cardinality(TrueHiddenRows(ws))
                       /\ e.hidden_column_count = Cardinality(TrueHiddenCols(ws))
            /\ rep.total_hidden_rows =
                   SumSeq([i \in 1..Len(scan_buf.wb) |->
                              Cardinality(TrueHiddenRows(scan_buf.wb[i]))])
            /\ rep.total_hidden_columns =
                   SumSeq([i \in 1..Len(scan_buf.wb) |->
                              Cardinality(TrueHiddenCols(scan_buf.wb[i]))])

C3_Witness ==
    /\ Called("detect_hidden_content")
    /\ \E i \in 1..Len(scan_out["detect_hidden_content"].value.worksheets) :
           LET e == scan_out["detect_hidden_content"].value.worksheets[i]
           IN  /\ e.hidden_column_count > HiddenLimit
               /\ Len(e.hidden_columns) = HiddenLimit
               /\ e.hidden_columns[HiddenLimit] # ColKey(HiddenLimit)
               /\ e.row_count < Cardinality(SheetNamed(e.sheet).row_hidden)

\* the titles of the worksheets of wb, in definition order
Titles(wb) == [i \in 1..Len(wb) |-> wb[i].title]

HasComment(ws) == \E rc \in DOMAIN ws.cells : ws.cells[rc].comment # None

HasQuestion(ws) ==
    \E rc \in DOMAIN ws.cells :
        ws.cells[rc].value # None /\ contains(str(ws.cells[rc].value), "?")

\* the sheet names of the entries of a report, in the order of the list
EntrySheets(rep) == [k \in 1..Len(rep.worksheets) |-> rep.worksheets[k].sheet]

CommentsFollowFindings(rep, wb) ==
    /\ EntrySheets(rep) = Titles(SelectSeq(wb, HasComment))
    /\ rep.total_comments =
           SumSeq([k \in 1..Len(rep.worksheets) |-> rep.worksheets[k].comment_count])

QuestionsFollowFindings(rep, wb) ==
    /\ EntrySheets(rep) = Titles(SelectSeq(wb, HasQuestion))
    /\ rep.total_questions =
           SumSeq([k \in 1..Len(rep.worksheets) |-> rep.worksheets[k].question_count])

\* C11: the extract_comments and extract_questions reports hold an entry for
\* a worksheet exactly when it has a finding of that scan, in the order of the
\* workbook, and their total is the sum of the entries' counts; the
\* detect_hidden_content report holds one entry for every worksheet, in the
\* order of the workbook, hidden rows or columns or not.
C11_EntriesFollowFindings ==
    /\ Called("extract_comments") =>
           CommentsFollowFindings(scan_out["extract_comments"].value, scan_buf.wb)
    /\ Called("extract_questions") =>
           QuestionsFollowFindings(scan_out["extract_questions"].value, scan_buf.wb)
    /\ Called("detect_hidden_content") =>
           EntrySheets(scan_out["detect_hidden_content"].value) = Titles(scan_buf.wb)

\* two entries and one worksheet left out in each of the two scans, in
\* different places, and a worksheet without hidden rows or columns listed
C11_Witness ==
    /\ Called("extract_comments")
    /\ Called("extract_questions")
    /\ Called("detect_hidden_content")
    /\ Len(scan_buf.wb) = 3
    /\ Len(scan_out["extract_comments"].value.worksheets) = 2
    /\ Len(scan_out["extract_questions"].value.worksheets) = 2
    /\ EntrySheets(scan_out["extract_comments"].value)
           # EntrySheets(scan_out["extract_questions"].value)
    /\ scan_out["extract_comments"].value.total_comments = 2
    /\ scan_out["extract_questions"].value.total_questions = 3
    /\ \E i \in 1..3 :
           LET e == scan_out["detect_hidden_content"].value.worksheets[i]
           IN  e.hidden_row_count = 0 /\ e.hidden_column_count = 0

\* what a report is to say of a cell's value: the value stringified, and the
\* empty string when the cell is empty or absent
TextOf(ws, row, column) ==
    IF <<row, column>> \notin DOMAIN ws.cells THEN <<>>
    ELSE IF ws.cells[<<row, column>>].value = None THEN <<>>
    ELSE str(ws.cells[<<row, column>>].value)

\* the cells of a worksheet whose stringified value contains '?'
QuestionCells(ws) ==
    {rc \in DOMAIN ws.cells : contains(str(ws.cells[rc].value), "?")}

\* the findings a report lists for a worksheet
QuestionsOf(rep, ws) ==
    IF \E k \in 1..Len(rep.worksheets) : rep.worksheets[k].sheet = ws.title
    THEN rep.worksheets[CHOOSE k \in 1..Len(rep.worksheets) :
                            rep.worksheets[k].sheet = ws.title].questions
    ELSE <<>>

QuestionsAnswered(found, ws) ==
    /\ \A rc \in QuestionCells(ws) :
           Cardinality({i \in 1..Len(found) :
                           found[i].cell = coordinate(rc[1], rc[2])}) = 1
    /\ \A i \in 1..Len(found) :
           \E rc \in QuestionCells(ws) :
               /\ found[i].cell = coordinate(rc[1], rc[2])
               /\ found[i].answer_cell = coordinate(rc[1], rc[2] + 1)
               /\ found[i].answer = TextOf(ws, rc[1], rc[2] + 1)

\* C12: extract_questions lists exactly one finding for every cell whose
\* stringified value contains '?'; its answer_cell is the coordinate of the
\* cell to the right and its answer is that cell's stringified value, the
\* empty string only when that cell is empty or absent (0 gives "0", False
\* gives "False").
C12_AnswerIsStringifiedValue ==
    Called("extract_questions") =>
        \A n \in 1..Len(scan_buf.wb) :
            QuestionsAnswered(QuestionsOf(scan_out["extract_questions"].value,
                                          scan_buf.wb[n]),
                              scan_buf.wb[n])

\* the coordinates of the commented cells of a worksheet, row by row
CommentCells(ws) ==
    SelectSeq([k \in 1..(ws.max_row * ws.max_column) |->
                  <<((k - 1) \div ws.max_column) + 1, ((k - 1) % ws.max_column) + 1>>],
              LAMBDA rc : rc \in DOMAIN ws.cells /\ ws.cells[rc].comment # None)

CommentsOf(rep, ws) ==
    IF \E k \in 1..Len(rep.worksheets) : rep.worksheets[k].sheet = ws.title
    THEN rep.worksheets[CHOOSE k \in 1..Len(rep.worksheets) :
                            rep.worksheets[k].sheet = ws.title].comments
    ELSE <<>>

CommentsValued(found, ws) ==
    /\ Len(found) = Len(CommentCells(ws))
    /\ \A i \in 1..Len(found) :
           /\ found[i].cell = coordinate(CommentCells(ws)[i][1], CommentCells(ws)[i][2])
           /\ found[i].value = TextOf(ws, CommentCells(ws)[i][1], CommentCells(ws)[i][2])

\* C13: every commented cell has exactly one finding in the extract_comments
\* entry of its worksheet, the findings stand in row-major order, and a
\* finding's value is the cell's stringified value, the empty string only
\* when the cell has no value (0 gives "0", False gives "False").
C13_ValueIsStringifiedValue ==
    Called("extract_comments") =>
        \A n \in 1..Len(scan_buf.wb) :
            CommentsValued(CommentsOf(scan_out["extract_comments"].value,
                                      scan_buf.wb[n]),
                           scan_buf.wb[n])

\* C14: in every detect_hidden_content entry the hidden flag is true exactly
\* when the worksheet's visibility is hidden or very hidden, whatever rows
\* and columns of it are hidden.
C14_HiddenFlagIffNotVisible ==
    Called("detect_hidden_content") =>
        \A k \in 1..Len(scan_out["detect_hidden_content"].value.worksheets) :
            scan_out["detect_hidden_content"].value.worksheets[k].hidden
                = (SheetNamed(scan_out["detect_hidden_content"].value.worksheets[k].sheet)
                       .sheet_state \in {"hidden", "veryHidden"})

-----------------------------------------------------------------------------
(* The lines the server is fed *)

NoMember == [k \in {} |-> None]

Members(key, values) == {NoMember} \cup {key :> v : v \in values}

\* the workbooks sent to the server
ServerWorkbooks ==
    {<<SheetA>>, <<SheetA, SheetB>>, <<SheetB, SheetC>>, <<SheetD>>,
     <<Sheet("Sheet1", "visible", 1, 2,
             [rc \in (1..1) \X (1..2) |->
                 IF rc[2] = 1 THEN Noted(StrV(TextOK), CommentAnon) ELSE Plain(IntV(0))],
             {}, {})>>}

IdMembers == Members("id", {IntV(7), None})

NameMembers == Members("name", {Text(n) : n \in ToolNames \cup {"extract_formulas"}})

ArgumentMembers == Members("arguments", {Dict("filename" :> FileName), List})

ParamMembers ==
    Members("params", {List} \cup {Dict(n @@ a) : n \in NameMembers, a \in ArgumentMembers})

ContentMembers ==
    Members("fileContent",
            {IntV(1), Base64(CorruptBytes, FALSE), Base64(CorruptBytes, TRUE)}
                \cup {Base64(Bytes(wb), TRUE) : wb \in ServerWorkbooks})

MethodMembers ==
    Members("method", {Text("initialize"), Text("tools/list"), Text("resources/list"),
                       IntV(1)})

CallRequests ==
    {Dict(i @@ ("method" :> Text("tools/call")) @@ p @@ c) :
        i \in IdMembers, p \in ParamMembers, c \in ContentMembers}

OtherRequests == {Dict(i @@ m) : i \in IdMembers, m \in MethodMembers}

\* a line of stdin: blank is `not line.strip()`, parses is whether it is a
\* JSON text, value the value it denotes
BlankLine == [blank |-> TRUE, parses |-> FALSE, value |-> None]

GarbageLine == [blank |-> FALSE, parses |-> FALSE, value |-> None]

JsonLine(v) == [blank |-> FALSE, parses |-> TRUE, value |-> v]

Lines ==
    {BlankLine, GarbageLine}
        \cup {JsonLine(v) : v \in {List, IntV(5), None, Text("hi")}
                                      \cup OtherRequests \cup CallRequests}

\* what the environment may do to the loads of one request: at most one
\* pass is disturbed, a later pass only when the earlier ones ran
Faults == {"none", "create", "write", "load", "scan"}

OnePass == {<<f, "none", "none">> : f \in Faults}

ThreePass ==
    OnePass \cup {<<"none", f, "none">> : f \in Faults}
            \cup {<<"none", "none", f>> : f \in Faults}

IsCall(v) == v.t = "dict" /\ dict_get(v, "method", None) = Text("tools/call")

FaultChoices(v) ==
    IF ~IsCall(v) THEN {NoFaults}
    ELSE IF /\ dict_get(v, "params", EmptyDict).t = "dict"
            /\ dict_get(dict_get(v, "params", EmptyDict), "name", None)
                   = Text("comprehensive_analysis")
    THEN ThreePass ELSE OnePass

-----------------------------------------------------------------------------
(* main: the read-dispatch-respond loop *)

Init ==
    /\ pc = "awaiting"
    /\ line = None
    /\ req = None
    /\ faults = NoFaults
    /\ response = None
    /\ nread = 0
    /\ nblank = 0
    /\ nwritten = 0
    /\ disk = 0
    /\ scan_buf = None
    /\ scan_ran = {}
    /\ scan_out = [tool \in ToolNames |-> NotRun]

\* for line in sys.stdin
ReadLine ==
    /\ pc = "awaiting"
    /\ nread < MaxLines
    /\ \E text \in Lines : line' = text
    /\ nread' = nread + 1
    /\ pc' = "read"
    \* request and response are rebound before they are read again
    /\ req' = None
    /\ faults' = NoFaults
    /\ response' = None
    /\ UNCHANGED <<nblank, nwritten, disk, scan_vars>>

\* if not line.strip(): continue
SkipBlank ==
    /\ pc = "read"
    /\ line.blank
    /\ nblank' = nblank + 1
    /\ pc' = "awaiting"
    /\ UNCHANGED <<line, req, faults, response, nread, nwritten, disk, scan_vars>>

Decode_silent ==
    /\ pc = "read"
    /\ ~line.blank
    /\ LET parsed == json_loads(line, disk)
       IN  IF parsed.ok
           THEN /\ req' = parsed.value
                /\ pc' = "executing"
           ELSE /\ pc' = "awaiting"
                /\ UNCHANGED req
    /\ faults' = NoFaults
    /\ UNCHANGED <<line, response, nread, nblank, nwritten, disk, scan_vars>>

\* request = json.loads(line), and the except of main when it raises
Decode ==
    /\ pc = "read"
    /\ ~line.blank
    /\ LET parsed == json_loads(line, disk)
       IN  IF parsed.ok
           THEN /\ req' = parsed.value
                /\ pc' = "executing"
                /\ UNCHANGED response
           ELSE /\ response' = main_except(parsed).value
                /\ pc' = "responding"
                /\ UNCHANGED req
    /\ faults' = NoFaults
    /\ UNCHANGED <<line, nread, nblank, nwritten, disk, scan_vars>>

Served(outcome) ==
    /\ response' = outcome.value
    /\ disk' = outcome.disk

\* response = handle_request(request), and the except of main when it raises
Execute ==
    /\ pc = "executing"
    /\ \E fault3 \in FaultChoices(req) :
           /\ faults' = fault3
           /\ Served(main_except(handle_request(req, fault3, disk)))
    /\ pc' = "responding"
    /\ UNCHANGED <<line, req, nread, nblank, nwritten, scan_vars>>

\* print(json.dumps(response), flush=True)
Respond ==
    /\ pc = "responding"
    /\ nwritten' = nwritten + 1
    /\ pc' = "awaiting"
    /\ UNCHANGED <<line, req, faults, response, nread, nblank, disk, scan_vars>>

\* sys.stdin is exhausted: the for loop and main end
EndOfInput ==
    /\ pc = "awaiting"
    /\ pc' = "done"
    /\ UNCHANGED <<line, req, faults, response, nread, nblank, nwritten, disk, scan_vars>>

Next ==
    \/ ReadLine
    \/ SkipBlank
    \/ Decode
    \/ Execute
    \/ Respond
    \/ EndOfInput

Spec == Init /\ [][Next]_vars

-----------------------------------------------------------------------------
(* Claims about the server, checked under Spec *)

Failed(resp) == "error" \in DOMAIN resp /\ "result" \notin DOMAIN resp

Succeeded(resp) == "result" \in DOMAIN resp /\ "error" \notin DOMAIN resp

\* the members of a tools/call request
ParamsOf(v) == dict_get(v, "params", EmptyDict)

NameOf(v) == IF ParamsOf(v).t = "dict" THEN dict_get(ParamsOf(v), "name", None) ELSE None

ListedNames == {Text(TOOLS[i].name) : i \in 1..Len(TOOLS)}

\* params and arguments are objects and fileContent, when present, is a
\* string that decodes as base64
WellFormedCall(v) ==
    /\ ParamsOf(v).t = "dict"
    /\ dict_get(ParamsOf(v), "arguments", EmptyDict).t = "dict"
    /\ "fileContent" \in DOMAIN v.d =>
           v.d["fileContent"].t = "base64" /\ v.d["fileContent"].padded

\* the bytes the request carries are a packaged workbook
CarriesWorkbook(v) ==
    /\ "fileContent" \in DOMAIN v.d
    /\ v.d["fileContent"].t = "base64"
    /\ v.d["fileContent"].padded
    /\ v.d["fileContent"].bytes.t = "bytes"
    /\ v.d["fileContent"].bytes.xlsx

UnknownTool(resp, v) ==
    /\ Failed(resp)
    /\ resp.error.data = "Unknown tool: " \o format(NameOf(v))

\* C4 as stated: once a request is answered no temporary file that a load
\* staged is left on disk.
C4_NoTemporaryFileLeft == (pc = "awaiting" \/ pc = "done") => disk = 0

\* C5 as stated: an error response has code -32700, with id 0, exactly when
\* the line is not valid JSON, and code -32603 for every failure on a line
\* that parsed.
C5_ParseErrorIffNotJson ==
    (pc = "responding" /\ Failed(response)) =>
        /\ (response.error.code = ParseErrorCode) <=> ~line.parses
        /\ response.error.code = ParseErrorCode => response.id = IntV(0)
        /\ line.parses => response.error.code = InternalErrorCode

\* the id a line carries, 0 when it carries none
IdOf(text) ==
    IF text.parses /\ text.value.t = "dict" /\ "id" \in DOMAIN text.value.d
    THEN text.value.d["id"] ELSE IntV(0)

\* C6: every response carries the id of the request it answers, and 0 when
\* the request has none.
C6_IdEchoed == pc = "responding" => response.id = IdOf(line)

C6_Witness ==
    /\ pc = "responding"
    /\ IsCall(req)
    /\ Failed(response)
    /\ response.error.code = InternalErrorCode
    /\ response.id = IntV(7)

\* the line in hand, read and neither skipped nor answered yet
Pending == IF pc \in {"read", "executing", "responding"} THEN 1 ELSE 0

\* C7 as stated: every line read has its one response written before the
\* next line is read and when the loop ends.
C7_OneResponsePerLine ==
    (pc = "awaiting" \/ pc = "done") => nwritten = nread

\* C7 amended: every line read that is not blank has its one response
\* written before the next line is read and when the loop ends; a blank
\* line is skipped and gets no response.
C7_OneResponsePerNonBlankLine == nwritten = nread - nblank - Pending

C7_Witness ==
    /\ pc = "done"
    /\ nread = 2
    /\ nblank = 0
    /\ nwritten = 2
    /\ disk = 1
    /\ Succeeded(response)

\* C8 as stated: a tools/call fails with UnknownTool exactly when its name
\* is not a name tools/list returns, whatever else the request holds.
C8_UnknownToolIffUnlisted ==
    (pc = "responding" /\ IsCall(req)) =>
        (UnknownTool(response, req) <=> NameOf(req) \notin ListedNames)

\* C8 amended: a tools/call whose params and arguments are objects and whose
\* fileContent, when present, decodes as base64 fails with UnknownTool when
\* its name is not a name tools/list returns; a tools/call whose name is one
\* of the four listed never fails with UnknownTool.
C8_UnknownToolWhenUnlisted ==
    (pc = "responding" /\ IsCall(req)) =>
        /\ (WellFormedCall(req) /\ NameOf(req) \notin ListedNames)
               => UnknownTool(response, req)
        /\ NameOf(req) \in ListedNames => ~UnknownTool(response, req)

C8_Witness ==
    /\ pc = "responding"
    /\ IsCall(req)
    /\ NameOf(req) = Text("extract_formulas")
    /\ CarriesWorkbook(req)
    /\ UnknownTool(response, req)

\* the passes the named tool runs
PassesOf(v) == IF NameOf(v) = Text("comprehensive_analysis") THEN 1..3 ELSE 1..1

\* the request reached the analyzer and the load of one of its passes failed
LoadFailed(v, fault3) ==
    /\ WellFormedCall(v)
    /\ NameOf(v) \in ListedNames
    /\ \/ ~CarriesWorkbook(v)
       \/ \E k \in PassesOf(v) : fault3[k] \in {"create", "write", "load"}

\* C9: when the load of a pass fails the response holds an error and no
\* result; comprehensive_analysis yields a report, and then the whole
\* report, only when all three passes succeed.
C9_NoPartialReport ==
    (pc = "responding" /\ IsCall(req)) =>
        /\ LoadFailed(req, faults) => Failed(response)
        /\ (Succeeded(response) /\ NameOf(req) = Text("comprehensive_analysis")) =>
               /\ faults = NoFaults
               /\ CarriesWorkbook(req)
               /\ DOMAIN response.result.content.of =
                      {"filename", "summary", "comments", "questions", "hidden_content"}

C9_Witness ==
    /\ pc = "responding"
    /\ IsCall(req)
    /\ NameOf(req) = Text("comprehensive_analysis")
    /\ CarriesWorkbook(req)
    /\ faults = <<"none", "none", "load">>
    /\ Failed(response)

\* C10: the response to a line is the one a server that has handled nothing
\* before gives to that line under the same behaviour of the environment.
C10_ResponseOfLineAlone ==
    pc = "responding" => response = serve_line(line, faults, 0).value

C10_Witness ==
    /\ pc = "responding"
    /\ nread = 2
    /\ disk = 1
    /\ IsCall(req)
    /\ Succeeded(response)

====
